---------------------------- MODULE Spec2Model ----------------------------
(***************************************************************************)
(* Availability and scheduling engine of the barbershop scheduler          *)
(* (app/services.py, app/models.py).                                       *)
(*                                                                         *)
(* Instants are whole seconds counted from midnight of day 0, so that the  *)
(* truncation to the minute that get_available_slots applies to blocked    *)
(* times is visible.  A calendar date is a day number.  A timedelta is a   *)
(* number of seconds.  Appointment columns that no modelled operation      *)
(* reads (customer_id, notes, the audit timestamps) are left out.          *)
(***************************************************************************)
EXTENDS Integers, Sequences, FiniteSets

VARIABLES
    appointments,   \* the appointments table: row i has id i (autoincrement)
    reply,          \* the last call: its operation, arguments and result
    pending         \* per client, a booking whose check passed and whose
                    \* insert has not run yet (non-atomic booking only)

vars == <<appointments, reply, pending>>

(***************************************************************************)
(* Bounds of the model.                                                    *)
(***************************************************************************)
MaxAppointments == 2

(***************************************************************************)
(* Time.                                                                   *)
(***************************************************************************)
timedelta(minutes) == minutes * 60

OneDay == 24 * 60 * 60

\* datetime of day `date` at hour:minute:second
At(date, hour, minute, second) ==
    date * OneDay + hour * 3600 + minute * 60 + second

\* datetime.replace(second=0, microsecond=0)
replace_second_0(t) == t - (t % 60)

\* datetime.replace(hour=h, minute=m, second=0, microsecond=0)
replace_time(date, tm) == At(date, tm.hour, tm.minute, 0)

(***************************************************************************)
(* models.py                                                               *)
(***************************************************************************)
SCHEDULED == "scheduled"
CONFIRMED == "confirmed"
COMPLETED == "completed"
CANCELLED == "cancelled"
NO_SHOW   == "no_show"

AppointmentStatus == {SCHEDULED, CONFIRMED, COMPLETED, CANCELLED, NO_SHOW}

\* Appointment.status.in_([SCHEDULED, CONFIRMED])
ActiveStatuses == {SCHEDULED, CONFIRMED}

\* The barbers table.  Row 1 has the column defaults (09:00-19:00, active);
\* row 2 is inactive and works 09:00-11:00; row 3 works one hour; row 5 has
\* work_end before work_start.  There is no row 4.
barbers ==
    [id \in {1, 2, 3, 5} |->
        CASE id = 1 -> [work_start |-> [hour |-> 9, minute |-> 0],
                        work_end   |-> [hour |-> 19, minute |-> 0],
                        is_active  |-> TRUE]
          [] id = 2 -> [work_start |-> [hour |-> 9, minute |-> 0],
                        work_end   |-> [hour |-> 11, minute |-> 0],
                        is_active  |-> FALSE]
          [] id = 3 -> [work_start |-> [hour |-> 9, minute |-> 0],
                        work_end   |-> [hour |-> 10, minute |-> 0],
                        is_active  |-> TRUE]
          [] id = 5 -> [work_start |-> [hour |-> 12, minute |-> 0],
                        work_end   |-> [hour |-> 10, minute |-> 0],
                        is_active  |-> TRUE]]

\* The services table.  Row 1 has the default duration; row 3 takes the
\* whole working day of barber 1; row 4 is inactive.  There is no row 5.
services ==
    [id \in {1, 2, 3, 4} |->
        CASE id = 1 -> [duration_minutes |-> 30, is_active |-> TRUE]
          [] id = 2 -> [duration_minutes |-> 60, is_active |-> TRUE]
          [] id = 3 -> [duration_minutes |-> 600, is_active |-> TRUE]
          [] id = 4 -> [duration_minutes |-> 30, is_active |-> FALSE]]

(***************************************************************************)
(* Query results.  A select is the set of rows it matches.                 *)
(***************************************************************************)
\* Result.scalar_one_or_none(): no row, the row, or MultipleResultsFound
scalar_one_or_none(rows) ==
    CASE rows = {}             -> [tag |-> "None", rows |-> {}]
      [] Cardinality(rows) = 1 -> [tag |-> "One", rows |-> rows]
      [] OTHER                 -> [tag |-> "MultipleResultsFound", rows |-> {}]

\* the rows of the appointments table
Rows(appts) == {appts[i] : i \in DOMAIN appts}

\* BarberService.get_by_id: select(Barber).where(Barber.id == barber_id).
\* The result is the matching ids; is_active is not part of the filter.
Barber_get_by_id(barber_id) ==
    scalar_one_or_none({b \in DOMAIN barbers : b = barber_id})

\* AppointmentService.get_by_id
Appointment_get_by_id(appts, appointment_id) ==
    scalar_one_or_none({r \in Rows(appts) : r.id = appointment_id})

(***************************************************************************)
(* AppointmentService                                                      *)
(***************************************************************************)
\* a get_barber_appointments that forgets the status filter
get_barber_appointments_any_status(appts, barber_id, date) ==
    LET start_of_day == At(date, 0, 0, 0)
        end_of_day   == start_of_day + OneDay
    IN  {r \in Rows(appts) :
            /\ r.barber_id = barber_id
            /\ r.scheduled_at >= start_of_day
            /\ r.scheduled_at < end_of_day}

\* get_barber_appointments: the barber's SCHEDULED or CONFIRMED rows of the
\* day of `date`.  The caller only iterates over them to build a set, so
\* the order_by is not modelled.
get_barber_appointments(appts, barber_id, date) ==
    LET start_of_day == At(date, 0, 0, 0)
        end_of_day   == start_of_day + OneDay
    IN  {r \in Rows(appts) :
            /\ r.barber_id = barber_id
            /\ r.scheduled_at >= start_of_day
            /\ r.scheduled_at < end_of_day
            /\ r.status \in ActiveStatuses}

\* check_availability: "True", "False", or the MultipleResultsFound that
\* scalar_one_or_none raises when the select matches more than one row.
\* The comparisons of the select are taken with their meaning on datetimes.
check_availability(appts, barber_id, scheduled_at, duration_minutes) ==
    LET end_time == scheduled_at + timedelta(duration_minutes)
        matched ==
            {r \in Rows(appts) :
                /\ r.barber_id = barber_id
                /\ r.status \in ActiveStatuses
                /\ \/ /\ r.scheduled_at <= scheduled_at
                      /\ r.scheduled_at + timedelta(30) > scheduled_at
                   \/ /\ r.scheduled_at < end_time
                      /\ r.scheduled_at >= scheduled_at}
        existing == scalar_one_or_none(matched)
    IN  CASE existing.tag = "MultipleResultsFound" -> "MultipleResultsFound"
          [] existing.tag = "None"                 -> "True"
          [] OTHER                                 -> "False"

\* a create that checks availability again before it inserts
create_rechecks(appts, barber_id, service_id, scheduled_at) ==
    IF check_availability(appts, barber_id, scheduled_at,
                          IF service_id \in DOMAIN services
                          THEN services[service_id].duration_minutes
                          ELSE 30) = "True"
    THEN Append(appts, [id           |-> Len(appts) + 1,
                        barber_id    |-> barber_id,
                        service_id   |-> service_id,
                        scheduled_at |-> scheduled_at,
                        status       |-> SCHEDULED])
    ELSE appts

\* create: add, commit, refresh.  No lookup and no availability check; the
\* status column takes its default.
create(appts, barber_id, service_id, scheduled_at) ==
    Append(appts, [id           |-> Len(appts) + 1,
                   barber_id    |-> barber_id,
                   service_id   |-> service_id,
                   scheduled_at |-> scheduled_at,
                   status       |-> SCHEDULED])

\* apt.service.duration_minutes if apt.service else 30
apt_duration(apt) ==
    IF apt.service_id \in DOMAIN services
    THEN services[apt.service_id].duration_minutes
    ELSE 30

\* the inner loop over one appointment (lines 236-239): the times added to
\* blocked_times from `current` on
RECURSIVE blocked_from(_, _)
blocked_from(current, stop) ==
    IF current < stop
    THEN {replace_second_0(current)} \cup blocked_from(current + timedelta(30), stop)
    ELSE {}

\* blocked_times after the loop over existing_appointments (lines 230-239)
blocked_times(appts, barber_id, date) ==
    UNION {blocked_from(apt.scheduled_at,
                        apt.scheduled_at + timedelta(apt_duration(apt))) :
           apt \in get_barber_appointments(appts, barber_id, date)}

\* the loop over check_time (lines 252-258): is_available
RECURSIVE is_available(_, _, _)
is_available(check_time, stop, blocked) ==
    IF check_time < stop
    THEN IF check_time \in blocked
         THEN FALSE
         ELSE is_available(check_time + timedelta(30), stop, blocked)
    ELSE TRUE

\* datetime.utcnow() as read during iteration i (from 0) of the slot loop.
\* A clock is [first, jump_at, then]: the wall clock reads `first` until
\* iteration jump_at and `then` from that iteration on.
utcnow(clock, i) == IF i < clock.jump_at THEN clock.first ELSE clock.then

\* the loop over current_slot (lines 249-263): the slots appended from
\* iteration i on
RECURSIVE slot_loop(_, _, _, _, _, _)
slot_loop(current_slot, i, end_of_day, service_duration, blocked, clock) ==
    IF current_slot + timedelta(service_duration) <= end_of_day
    THEN LET free == is_available(current_slot,
                                  current_slot + timedelta(service_duration),
                                  blocked)
             here == IF free /\ current_slot > utcnow(clock, i)
                     THEN <<current_slot>>
                     ELSE <<>>
         IN  here \o slot_loop(current_slot + timedelta(30), i + 1, end_of_day,
                               service_duration, blocked, clock)
    ELSE <<>>

\* get_available_slots
get_available_slots(appts, barber_id, date, service_duration, clock) ==
    LET barber == Barber_get_by_id(barber_id)
    IN  IF barber.tag = "None"
        THEN <<>>
        ELSE LET row          == barbers[barber_id]
                 blocked      == blocked_times(appts, barber_id, date)
                 start_of_day == replace_time(date, row.work_start)
                 end_of_day   == replace_time(date, row.work_end)
             IN  slot_loop(start_of_day, 0, end_of_day, service_duration,
                           blocked, clock)

\* a cancel that only cancels bookings that are still active
cancel_active_only(appts, appointment_id) ==
    LET appointment == Appointment_get_by_id(appts, appointment_id)
    IN  IF appointment.tag = "One"
        THEN LET after == IF appts[appointment_id].status \in ActiveStatuses
                          THEN [appts EXCEPT ![appointment_id].status = CANCELLED]
                          ELSE appts
             IN  [appts |-> after, result |-> {after[appointment_id]}]
        ELSE [appts |-> appts, result |-> {}]

\* cancel: the table afterwards and the value returned (the row, or none)
cancel(appts, appointment_id) ==
    LET appointment == Appointment_get_by_id(appts, appointment_id)
    IN  IF appointment.tag = "One"
        THEN LET after == [appts EXCEPT ![appointment_id].status = CANCELLED]
             IN  [appts |-> after, result |-> {after[appointment_id]}]
        ELSE [appts |-> appts, result |-> {}]

(***************************************************************************)
(* The booking entry point and the status changes made outside             *)
(* AppointmentService.  Their code is not among the sources; they follow   *)
(* the specification's Booking Orchestrator and Booking status.            *)
(***************************************************************************)
\* book: provider exists and is active; service exists and is active;
\* check_availability(provider, start, service.duration); then create.
\* An exception of check_availability propagates to the caller.
book(appts, barber_id, service_id, scheduled_at) ==
    IF \/ Barber_get_by_id(barber_id).tag = "None"
       \/ ~barbers[barber_id].is_active
    THEN [appts |-> appts, outcome |-> "rejected", why |-> "provider"]
    ELSE IF \/ service_id \notin DOMAIN services
            \/ ~services[service_id].is_active
    THEN [appts |-> appts, outcome |-> "rejected", why |-> "service"]
    ELSE LET available ==
                 check_availability(appts, barber_id, scheduled_at,
                                    services[service_id].duration_minutes)
         IN  CASE available = "True" ->
                    [appts   |-> create(appts, barber_id, service_id, scheduled_at),
                     outcome |-> "created", why |-> "none"]
               [] available = "False" ->
                    [appts |-> appts, outcome |-> "rejected", why |-> "conflict"]
               [] OTHER ->
                    [appts |-> appts, outcome |-> "raised", why |-> available]

\* scheduled -> confirmed -> completed, scheduled/confirmed -> no_show
\* (scheduled/confirmed -> cancelled is AppointmentService.cancel)
transition(current, requested) ==
    \/ current = SCHEDULED /\ requested \in {CONFIRMED, NO_SHOW}
    \/ current = CONFIRMED /\ requested \in {COMPLETED, NO_SHOW}

(***************************************************************************)
(* Inputs.                                                                 *)
(***************************************************************************)
NineOClock == At(0, 9, 0, 0)

\* requested starts: 09:00, 09:00:30 and 09:30 of day 0
StartTimes == {NineOClock, NineOClock + 30, NineOClock + timedelta(30)}

\* Barber and service ids sent by callers; barber 4 and service 5 do not
\* exist.  Bookings are requested for barber 1, for the inactive barber 2
\* and for the missing barber 4.
BarberIds     == {1, 2, 3, 4, 5}
BookBarberIds == {1, 2, 4}
ServiceIds    == {1, 2, 3, 4, 5}

\* the whole-day service 3 is only asked for at 09:00
Requested(service_id, scheduled_at) ==
    service_id = 3 => scheduled_at = NineOClock

\* durations asked of check_availability and of get_available_slots
CheckDurations == {30, 60}
SlotDurations  == {-30, 0, 30, 45, 60, 630}

Dates == {0, 1}

\* starts handed to create directly: the requested starts and 09:15, a
\* whole minute off the 30-minute grid
CreateStartTimes == StartTimes \cup {At(0, 9, 15, 0)}

\* a wall clock that stands still during a call
FixedClock(now) == [first |-> now, jump_at |-> 0, then |-> now]

\* wall clocks: standing at 08:00, 09:00 or 14:00 of day 0, or stepping
\* from 08:00 to 09:30 after the first iteration of the slot loop
EightOClock == At(0, 8, 0, 0)

Clocks ==
    {FixedClock(EightOClock), FixedClock(NineOClock), FixedClock(At(0, 14, 0, 0)),
     [first |-> EightOClock, jump_at |-> 1, then |-> At(0, 9, 30, 0)]}

Clients == {1, 2}

NoReply == [op |-> "none"]
Idle    == [pc |-> "idle"]

(***************************************************************************)
(* The state machine.  A caller makes one call at a time: a call runs as   *)
(* one step that leaves its arguments and result in reply, and Return      *)
(* hands the reply over before the next call.                              *)
(***************************************************************************)
Init ==
    /\ appointments = <<>>
    /\ reply = NoReply
    /\ pending = [c \in Clients |-> Idle]

\* book as one atomic unit
Book(barber_id, service_id, scheduled_at) ==
    LET r == book(appointments, barber_id, service_id, scheduled_at)
    IN  /\ reply = NoReply
        /\ r.outcome = "created" => Len(appointments) < MaxAppointments
        /\ appointments' = r.appts
        /\ reply' = [op |-> "book", barber_id |-> barber_id,
                     service_id |-> service_id, scheduled_at |-> scheduled_at,
                     outcome |-> r.outcome, why |-> r.why]
        /\ UNCHANGED pending

\* AppointmentService.create called directly, without a check before it
Create(barber_id, service_id, scheduled_at) ==
    /\ reply = NoReply
    /\ Len(appointments) < MaxAppointments
    /\ appointments' = create(appointments, barber_id, service_id, scheduled_at)
    /\ reply' = [op |-> "create", barber_id |-> barber_id,
                 service_id |-> service_id, scheduled_at |-> scheduled_at]
    /\ UNCHANGED pending

Cancel(appointment_id) ==
    LET r == cancel(appointments, appointment_id)
    IN  /\ reply = NoReply
        /\ appointments' = r.appts
        /\ reply' = [op |-> "cancel", appointment_id |-> appointment_id,
                     before |-> IF appointment_id \in DOMAIN appointments
                                THEN appointments[appointment_id].status
                                ELSE "absent",
                     result |-> r.result]
        /\ UNCHANGED pending

UpdateStatus(appointment_id, requested) ==
    /\ reply = NoReply
    /\ appointment_id \in DOMAIN appointments
    /\ transition(appointments[appointment_id].status, requested)
    /\ appointments' = [appointments EXCEPT ![appointment_id].status = requested]
    /\ reply' = [op |-> "update_status", appointment_id |-> appointment_id,
                 requested |-> requested]
    /\ UNCHANGED pending

CheckAvailability(barber_id, scheduled_at, duration_minutes) ==
    /\ reply = NoReply
    /\ reply' = [op |-> "check_availability", barber_id |-> barber_id,
                 scheduled_at |-> scheduled_at,
                 duration_minutes |-> duration_minutes,
                 result |-> check_availability(appointments, barber_id,
                                               scheduled_at, duration_minutes)]
    /\ UNCHANGED <<appointments, pending>>

GetAvailableSlots(barber_id, date, service_duration, clock) ==
    /\ reply = NoReply
    /\ reply' = [op |-> "get_available_slots", barber_id |-> barber_id,
                 date |-> date, service_duration |-> service_duration,
                 clock |-> clock,
                 result |-> get_available_slots(appointments, barber_id, date,
                                                service_duration, clock)]
    /\ UNCHANGED <<appointments, pending>>

Return ==
    /\ reply # NoReply
    /\ reply' = NoReply
    /\ UNCHANGED <<appointments, pending>>

\* Booking as two steps of a client, the check and the insert, with other
\* clients' steps in between: no lock is held and create checks nothing.
BeginBooking(client, barber_id, service_id, scheduled_at) ==
    /\ pending[client] = Idle
    /\ Barber_get_by_id(barber_id).tag = "One"
    /\ barbers[barber_id].is_active
    /\ service_id \in DOMAIN services
    /\ services[service_id].is_active
    /\ check_availability(appointments, barber_id, scheduled_at,
                          services[service_id].duration_minutes) = "True"
    /\ pending' = [pending EXCEPT ![client] =
                      [pc |-> "checked", barber_id |-> barber_id,
                       service_id |-> service_id, scheduled_at |-> scheduled_at]]
    /\ reply' = [op |-> "begin_booking", client |-> client]
    /\ UNCHANGED appointments

FinishBooking(client) ==
    /\ pending[client] # Idle
    /\ Len(appointments) < MaxAppointments
    /\ appointments' = create(appointments, pending[client].barber_id,
                              pending[client].service_id,
                              pending[client].scheduled_at)
    /\ pending' = [pending EXCEPT ![client] = Idle]
    /\ reply' = [op |-> "finish_booking", client |-> client]

\* the booking and conflict-check calls, one at a time
Next ==
    \/ \E b \in BookBarberIds, s \in ServiceIds, t \in StartTimes :
           Requested(s, t) /\ Book(b, s, t)
    \/ \E id \in 1..(MaxAppointments + 1) : Cancel(id)
    \/ \E id \in 1..MaxAppointments, st \in AppointmentStatus : UpdateStatus(id, st)
    \/ \E b \in {1, 3}, t \in StartTimes, d \in CheckDurations :
           CheckAvailability(b, t, d)
    \/ Return

Spec == Init /\ [][Next]_vars

\* bookings of barber 1 for the active services, confirmations,
\* cancellations and the slot enumeration, one call at a time; day 1 is
\* asked for of barber 1, with the clock standing at 08:00 of day 0
NextSlots ==
    \/ \E s \in {1, 2, 3}, t \in StartTimes : Requested(s, t) /\ Book(1, s, t)
    \/ \E id \in 1..MaxAppointments : Cancel(id)
    \/ \E id \in 1..MaxAppointments : UpdateStatus(id, CONFIRMED)
    \/ \E b \in BarberIds, date \in Dates, d \in SlotDurations, c \in Clocks :
           /\ date = 0 \/ (b = 1 /\ c = FixedClock(EightOClock))
           /\ GetAvailableSlots(b, date, d, c)
    \/ Return

SpecSlots == Init /\ [][NextSlots]_vars

\* two clients booking with the check and the insert as separate steps
NextRace ==
    \/ \E c \in Clients, b \in BookBarberIds, s \in ServiceIds, t \in StartTimes :
           Requested(s, t) /\ BeginBooking(c, b, s, t)
    \/ \E c \in Clients : FinishBooking(c)

SpecRace == Init /\ [][NextRace]_vars

\* the store as create and cancel leave it, and the two read paths on it:
\* 30- and 60-minute bookings of barbers 1 and 3 at any start, and the
\* slots of day 0 asked for at 08:00
NextCreate ==
    \/ \E b \in {1, 3}, s \in {1, 2}, t \in CreateStartTimes : Create(b, s, t)
    \/ \E id \in 1..MaxAppointments : Cancel(id)
    \/ \E b \in {1, 3}, d \in CheckDurations :
           GetAvailableSlots(b, 0, d, FixedClock(EightOClock))
    \/ \E b \in {1, 3}, t \in CreateStartTimes, d \in CheckDurations :
           CheckAvailability(b, t, d)
    \/ Return

SpecCreate == Init /\ [][NextCreate]_vars

(***************************************************************************)
(* Notions the properties are stated with.                                 *)
(***************************************************************************)
IsActive(r) == r.status \in {SCHEDULED, CONFIRMED}

\* the occupied span [start, start + service.duration) of a booking
SpanStart(r) == r.scheduled_at
SpanEnd(r)   == r.scheduled_at + apt_duration(r) * 60

\* two half-open spans intersect
Intersect(s1, e1, s2, e2) == s1 < e2 /\ s2 < e1

\* the active bookings of a provider that conflict with a candidate span
\* under the half-open overlap rule
Conflicting(appts, barber_id, start, minutes) ==
    {i \in DOMAIN appts :
        /\ appts[i].barber_id = barber_id
        /\ IsActive(appts[i])
        /\ SpanStart(appts[i]) < start + minutes * 60
        /\ SpanEnd(appts[i]) > start}

\* two active bookings of one provider whose spans intersect
DoubleBooked(appts) ==
    \E i, j \in DOMAIN appts :
        /\ i < j
        /\ appts[i].barber_id = appts[j].barber_id
        /\ IsActive(appts[i]) /\ IsActive(appts[j])
        /\ Intersect(SpanStart(appts[i]), SpanEnd(appts[i]),
                     SpanStart(appts[j]), SpanEnd(appts[j]))

(***************************************************************************)
(* C1.  Non-overlap: after any sequence of bookings made as an atomic      *)
(* check_availability followed by create, no two active bookings of one    *)
(* provider have intersecting spans [start, start + service.duration).     *)
(* Fails: a 60-minute booking at 09:00 does not stop a booking at 09:30.   *)
(***************************************************************************)
C1_NonOverlap == ~DoubleBooked(appointments)

(***************************************************************************)
(* C2.  check_availability returns true if and only if no scheduled or     *)
(* confirmed booking of the provider satisfies                             *)
(* existingStart < candidateStart + candidateDuration and                  *)
(* existingStart + existingDuration > candidateStart.                      *)
(* Fails: the select tests existingStart + 30 minutes, whatever the        *)
(* existing booking's service lasts.                                       *)
(***************************************************************************)
C2_AvailableIffNoConflict ==
    reply.op = "check_availability" =>
        (reply.result = "True" <=>
            Conflicting(appointments, reply.barber_id, reply.scheduled_at,
                        reply.duration_minutes) = {})

(***************************************************************************)
(* C3.  Every call of the booking entry point either rejects and leaves    *)
(* the bookings unchanged (provider missing or inactive, service missing   *)
(* or inactive, span in conflict with an active booking of the provider)   *)
(* or adds exactly one booking with status scheduled.                      *)
(* Fails through check_availability: see C2 and C10.                       *)
(***************************************************************************)
C3_BookCreatesOrRejects ==
    [][reply'.op = "book" =>
        LET b  == reply'.barber_id
            s  == reply'.service_id
            t  == reply'.scheduled_at
            ok == /\ b \in DOMAIN barbers /\ barbers[b].is_active
                  /\ s \in DOMAIN services /\ services[s].is_active
                  /\ Conflicting(appointments, b, t,
                                 services[s].duration_minutes) = {}
        IN  IF ok
            THEN /\ reply'.outcome = "created"
                 /\ appointments' =
                        Append(appointments,
                               [id |-> Len(appointments) + 1, barber_id |-> b,
                                service_id |-> s, scheduled_at |-> t,
                                status |-> SCHEDULED])
            ELSE /\ reply'.outcome = "rejected"
                 /\ appointments' = appointments]_vars

(***************************************************************************)
(* C4.  With the check and the insert as separate steps, the insert of a   *)
(* client whose check has passed always goes through: every step that      *)
(* finishes a booking adds that booking as scheduled and keeps the rows    *)
(* already stored, whatever other clients inserted since the check.  So    *)
(* two overlapping active bookings of one provider are reachable           *)
(* (C4_BothCreated).                                                       *)
(***************************************************************************)
C4_InsertNeverRefused ==
    [][\A c \in Clients :
        (pending[c] # Idle /\ pending'[c] = Idle) =>
            /\ Len(appointments') = Len(appointments) + 1
            /\ SubSeq(appointments', 1, Len(appointments)) = appointments
            /\ LET new == appointments'[Len(appointments')]
               IN  /\ new.barber_id = pending[c].barber_id
                   /\ new.service_id = pending[c].service_id
                   /\ new.scheduled_at = pending[c].scheduled_at
                   /\ new.status = SCHEDULED]_vars

\* both clients booked the same provider at the same instant, and both
\* bookings are stored as scheduled
C4_BothCreated ==
    /\ Len(appointments) = 2
    /\ pending[1] = Idle /\ pending[2] = Idle
    /\ appointments[1].barber_id = appointments[2].barber_id
    /\ appointments[1].scheduled_at = appointments[2].scheduled_at
    /\ appointments[1].status = SCHEDULED /\ appointments[2].status = SCHEDULED
    /\ DoubleBooked(appointments)

(***************************************************************************)
(* The slot enumeration as the specification words it.                     *)
(***************************************************************************)
WorkStart(barber_id, date) == replace_time(date, barbers[barber_id].work_start)
WorkEnd(barber_id, date)   == replace_time(date, barbers[barber_id].work_end)

\* the grid points t = workStart + 30k minutes up to workEnd
GridPoints(barber_id, date) ==
    LET ws == WorkStart(barber_id, date)
        we == WorkEnd(barber_id, date)
    IN  IF we < ws THEN {}
        ELSE {ws + k * 1800 : k \in 0..((we - ws) \div 1800)}

\* the points start, start + 30, ... strictly before start + minutes
SteppedPoints(start, minutes) ==
    IF minutes <= 0 THEN {}
    ELSE {p \in {start + j * 1800 : j \in 0..(minutes \div 30)} :
             p < start + minutes * 60}

\* the provider's active bookings that day
ActiveThatDay(appts, barber_id, date) ==
    {i \in DOMAIN appts :
        /\ appts[i].barber_id = barber_id
        /\ IsActive(appts[i])
        /\ appts[i].scheduled_at \div OneDay = date}

\* blocked: the stepped points of the provider's active bookings that day
Blocked(appts, barber_id, date) ==
    UNION {SteppedPoints(appts[i].scheduled_at, apt_duration(appts[i])) :
           i \in ActiveThatDay(appts, barber_id, date)}

\* the same points, each cut to its whole minute
BlockedMinutes(appts, barber_id, date) ==
    {p - (p % 60) : p \in Blocked(appts, barber_id, date)}

RECURSIVE Ascending(_)
Ascending(S) ==
    IF S = {} THEN <<>>
    ELSE LET m == CHOOSE x \in S : \A y \in S : x <= y
         IN  <<m>> \o Ascending(S \ {m})

\* the grid points that fit before workEnd, lie after now and step over no
\* blocked point, in ascending order
QualifyingSlots(barber_id, date, minutes, now, blocked) ==
    Ascending({t \in GridPoints(barber_id, date) :
                  /\ t + minutes * 60 <= WorkEnd(barber_id, date)
                  /\ t > now
                  /\ SteppedPoints(t, minutes) \cap blocked = {}})

\* a get_available_slots call for a stored provider and a positive
\* duration, during which the clock stood still
SlotsCallWithOneNow ==
    /\ reply.op = "get_available_slots"
    /\ reply.barber_id \in DOMAIN barbers
    /\ reply.service_duration > 0
    /\ reply.clock.first = reply.clock.then

(***************************************************************************)
(* C5 as claimed.  With one value of now, get_available_slots returns      *)
(* exactly the ascending grid points t with t + duration <= workEnd,       *)
(* t > now and none of t, t + 30, ... before t + duration in blocked,      *)
(* blocked being the 30-minute-stepped points from each active booking's   *)
(* start.  Fails for a booking that starts at 09:00:30: the code blocks    *)
(* 09:00:00, the point cut to its minute.                                  *)
(***************************************************************************)
C5_SlotsExactlyAsClaimed ==
    SlotsCallWithOneNow =>
        reply.result =
            QualifyingSlots(reply.barber_id, reply.date, reply.service_duration,
                            reply.clock.first,
                            Blocked(appointments, reply.barber_id, reply.date))

(***************************************************************************)
(* C5 amended.  The same, with every blocked point cut to its whole        *)
(* minute (seconds dropped).                                               *)
(***************************************************************************)
C5_SlotsExactly ==
    SlotsCallWithOneNow =>
        reply.result =
            QualifyingSlots(reply.barber_id, reply.date, reply.service_duration,
                            reply.clock.first,
                            BlockedMinutes(appointments, reply.barber_id,
                                           reply.date))

\* barber 1 (09:00-19:00) holds an active booking that starts at 09:00:30;
\* asked before 09:00 for 30 minutes, the call returns 09:30 .. 18:30
C5_BoundaryReached ==
    /\ SlotsCallWithOneNow
    /\ reply.barber_id = 1 /\ reply.date = 0 /\ reply.service_duration = 30
    /\ reply.clock.first < NineOClock
    /\ \E i \in DOMAIN appointments :
          /\ appointments[i].barber_id = 1
          /\ IsActive(appointments[i])
          /\ appointments[i].scheduled_at = NineOClock + 30
    /\ Len(reply.result) = 19
    /\ reply.result[1] = NineOClock + 1800
    /\ reply.result[19] = At(0, 18, 30, 0)

\* barber 1's window is fully occupied by an active whole-day booking and
\* the call returns no slot
C5_ExhaustedReached ==
    /\ SlotsCallWithOneNow
    /\ reply.barber_id = 1 /\ reply.date = 0 /\ reply.service_duration = 30
    /\ reply.clock.first < NineOClock
    /\ GridPoints(1, 0) \ {WorkEnd(1, 0)}
          \subseteq BlockedMinutes(appointments, 1, 0)
    /\ reply.result = <<>>

(***************************************************************************)
(* C6.  Within one get_available_slots call the current instant is read    *)
(* once: there is one instant now0 such that the result is exactly what    *)
(* the call returns with the clock standing at now0.                       *)
(* Stated for an active provider and a positive duration, where C7 and C8  *)
(* play no part.  Fails: utcnow() is read in every iteration of the slot   *)
(* loop.                                                                   *)
(***************************************************************************)
C6_OneNowPerCall ==
    (/\ reply.op = "get_available_slots"
     /\ reply.barber_id \in DOMAIN barbers
     /\ barbers[reply.barber_id].is_active
     /\ reply.service_duration > 0) =>
        \E now0 \in {WorkStart(reply.barber_id, reply.date) - 1}
                    \cup {WorkStart(reply.barber_id, reply.date) + k * 1800 :
                          k \in 0..48} :
            reply.result =
                get_available_slots(appointments, reply.barber_id, reply.date,
                                    reply.service_duration, FixedClock(now0))

(***************************************************************************)
(* C7.  get_available_slots for a provider id that does not exist, or      *)
(* that exists with is_active = false, returns the empty sequence.         *)
(* Stated for the positive durations, where C8 plays no part.              *)
(* Fails: the lookup does not read is_active.                              *)
(***************************************************************************)
C7_NoSlotsWithoutActiveProvider ==
    (/\ reply.op = "get_available_slots"
     /\ reply.service_duration > 0
     /\ \/ reply.barber_id \notin DOMAIN barbers
        \/ ~barbers[reply.barber_id].is_active)
        => reply.result = <<>>

(***************************************************************************)
(* C8.  get_available_slots returns the empty sequence when the duration   *)
(* is zero or negative, when working-end is at or before working-start,    *)
(* and when the duration exceeds the working window.                       *)
(* Stated for an active provider, where C7 plays no part.                  *)
(* Fails for a duration of zero or less: every grid point is returned.     *)
(***************************************************************************)
C8_NoSlotsOnAnomaly ==
    (/\ reply.op = "get_available_slots"
     /\ reply.barber_id \in DOMAIN barbers
     /\ barbers[reply.barber_id].is_active
     /\ LET ws == WorkStart(reply.barber_id, reply.date)
            we == WorkEnd(reply.barber_id, reply.date)
        IN  \/ reply.service_duration <= 0
            \/ we <= ws
            \/ reply.service_duration * 60 > we - ws)
        => reply.result = <<>>

(***************************************************************************)
(* C9.  cancel is unconditional and idempotent: on an existing booking in  *)
(* any status it sets the status to cancelled, changes no other booking    *)
(* and returns the booking; cancelling again returns the cancelled booking *)
(* and leaves the table as it was after the first call; on an unknown id   *)
(* it returns nothing and changes nothing.                                 *)
(***************************************************************************)
C9_CancelIdempotent ==
    [][reply'.op = "cancel" =>
        LET id == reply'.appointment_id
        IN  IF id \in DOMAIN appointments
            THEN /\ appointments' =
                        [appointments EXCEPT ![id].status = CANCELLED]
                 /\ reply'.result = {appointments'[id]}
                 /\ cancel(appointments', id) =
                        [appts |-> appointments', result |-> reply'.result]
            ELSE /\ appointments' = appointments
                 /\ reply'.result = {}]_vars

\* a booking that was already cancelled was cancelled again, next to a
\* booking of the same provider that is still active
C9_CancelledTwice ==
    /\ reply.op = "cancel"
    /\ reply.before = CANCELLED
    /\ reply.result # {}
    /\ \E i \in DOMAIN appointments :
          i # reply.appointment_id /\ IsActive(appointments[i])

(***************************************************************************)
(* C10.  check_availability always answers with a boolean, also when the   *)
(* candidate span overlaps two or more active bookings of the provider.    *)
(* Fails: scalar_one_or_none raises MultipleResultsFound when the select   *)
(* matches two rows.                                                       *)
(***************************************************************************)
C10_ConflictIsAResult ==
    reply.op = "check_availability" => reply.result \in {"True", "False"}

(***************************************************************************)
(* C11.  The two read paths agree: in every state reached by create and    *)
(* cancel, every slot t that get_available_slots(provider, date, duration) *)
(* returns has check_availability(provider, t, duration) = true in that    *)
(* state, and [t, t + duration) overlaps no active booking span of the     *)
(* provider; also with bookings that start off the 30-minute grid or last  *)
(* other than 30 minutes.                                                  *)
(* Fails: a booking at 09:15 blocks only the point 09:15, so 09:00 is      *)
(* returned for 30 minutes although check_availability answers false and   *)
(* the spans overlap.                                                      *)
(***************************************************************************)
C11_SlotsPassCheck ==
    reply.op = "get_available_slots" =>
        \A k \in DOMAIN reply.result :
            /\ check_availability(appointments, reply.barber_id,
                                  reply.result[k],
                                  reply.service_duration) = "True"
            /\ Conflicting(appointments, reply.barber_id, reply.result[k],
                           reply.service_duration) = {}

=============================================================================
